---- MODULE Spec2Model ----
(***************************************************************************)
(* dexom_python/gpr_rules.py: apply_gpr (gene weights -> reaction weights  *)
(* through each reaction's GPR rule) and expression2qualitative (the       *)
(* discretizer of gene expression values).                                 *)
(*                                                                         *)
(* Python strings are sequences of one-character strings, so that replace, *)
(* split, join, slicing and re.sub are computed character by character.    *)
(* Numbers are pairs [w, e] standing for the real w + e * 1e-15.           *)
(***************************************************************************)
EXTENDS Integers, Sequences, FiniteSets, TLC

VARIABLES
    model,             \* apply_gpr: model.reactions, each with its rule and its genes
    gene_weights,      \* apply_gpr: the dictionary of gene IDs and weights
    modelname,         \* apply_gpr: the naming convention
    reaction_weights,  \* apply_gpr: the dictionary being built
    idx,               \* apply_gpr: position of the loop over model.reactions
    pc,                \* apply_gpr: "loop", "returned", or the exception that left it
    console,           \* what print has written
    csv,               \* the file written by save_reaction_weights
    expression_file,   \* expression2qualitative: the rows of the csv file
    df,                \* expression2qualitative: the DataFrame
    percentage,        \* expression2qualitative: its parameter
    qpc,               \* expression2qualitative: "start", "returned"
    geneweights_csv    \* expression2qualitative: the file written by df.to_csv

vars == <<model, gene_weights, modelname, reaction_weights, idx, pc, console,
          csv, expression_file, df, percentage, qpc, geneweights_csv>>

gprVars == <<model, gene_weights, modelname, reaction_weights, idx, pc, console, csv>>
qVars == <<expression_file, df, percentage, qpc, geneweights_csv>>

----------------------------------------------------------------------------
(* Python str operations *)

Digits == {"0", "1", "2", "3", "4", "5", "6", "7", "8", "9"}

Letters == {"A", "B", "C", "H", "Z", "T", "a", "c", "d", "g", "n", "o", "r", "s"}

Range(s) == {s[i] : i \in 1..Len(s)}

\* s[i:]  (0-based i, as Python)
Drop(s, n) == IF n >= Len(s) THEN <<>> ELSE SubSeq(s, n + 1, Len(s))

\* s.startswith(p)
StartsWith(s, p) == Len(p) <= Len(s) /\ SubSeq(s, 1, Len(p)) = p

\* str.replace(old, new): leftmost non-overlapping occurrences, left to right
RECURSIVE Replace(_, _, _)
Replace(s, old, new) ==
    IF s = <<>> THEN <<>>
    ELSE IF StartsWith(s, old) THEN new \o Replace(Drop(s, Len(old)), old, new)
    ELSE <<Head(s)>> \o Replace(Tail(s), old, new)

\* the first whitespace-free word of s (s does not start with a space)
RECURSIVE Word(_)
Word(s) ==
    IF s = <<>> \/ Head(s) = " " THEN <<>> ELSE <<Head(s)>> \o Word(Tail(s))

\* str.split(): split on runs of whitespace, no empty strings
RECURSIVE Split(_)
Split(s) ==
    IF s = <<>> THEN <<>>
    ELSE IF Head(s) = " " THEN Split(Tail(s))
    ELSE <<Word(s)>> \o Split(Drop(s, Len(Word(s))))

\* ' '.join(tokens)
RECURSIVE Join(_)
Join(toks) ==
    IF toks = <<>> THEN <<>>
    ELSE IF Len(toks) = 1 THEN toks[1]
    ELSE toks[1] \o <<" ">> \o Join(Tail(toks))

\* s.isdigit()
IsDigit(s) == s # <<>> /\ Range(s) \subseteq Digits

\* s[:-4]
DropLast4(s) == IF Len(s) <= 4 THEN <<>> ELSE SubSeq(s, 1, Len(s) - 4)

\* re.sub('and|or|\(|\)', '', s): at each position the alternatives are tried in order
RECURSIVE SubAndOrParens(_)
SubAndOrParens(s) ==
    IF s = <<>> THEN <<>>
    ELSE IF StartsWith(s, <<"a", "n", "d">>) THEN SubAndOrParens(Drop(s, 3))
    ELSE IF StartsWith(s, <<"o", "r">>) THEN SubAndOrParens(Drop(s, 2))
    ELSE IF Head(s) \in {"(", ")"} THEN SubAndOrParens(Tail(s))
    ELSE <<Head(s)>> \o SubAndOrParens(Tail(s))

\* re.sub(':|\.', '_', s)
SubColonDot(s) == [i \in 1..Len(s) |-> IF s[i] \in {":", "."} THEN "_" ELSE s[i]]

\* s.replace(':', '_')
ColonToUnderscore(s) == Replace(s, <<":">>, <<"_">>)

\* rule.replace("(", "( ").replace(")", " )").split()
SpacedSplit(rule) ==
    Split(Replace(Replace(rule, <<"(">>, <<"(", " ">>), <<")">>, <<" ", ")">>))

----------------------------------------------------------------------------
(* prepare_expr_split_gen_list *)

SupportedNames == {"recon2", "recon1", "iMM1865", "human1", "zebrafish1"}

G_ == <<"g", "_">>

Recon2Token(s) == IF ":" \in Range(s) THEN ColonToUnderscore(s) ELSE s
Recon1Token(s) == IF "_" \in Range(s) THEN G_ \o DropLast4(s) ELSE s
IMMToken(s) == IF IsDigit(s) THEN G_ \o s ELSE s

\* rxngenes = re.sub('and|or|\(|\)', '', rxn.gene_reaction_rule).split()
RxnGenes(rxn) == Split(SubAndOrParens(rxn.gene_reaction_rule))

\* expr_split of prepare_expr_split_gen_list (None is modelled by <<>> with found = FALSE)
ExprSplit(rxn, name) ==
    LET spaced == SpacedSplit(rxn.gene_reaction_rule)
        plain == Split(rxn.gene_reaction_rule)
    IN  CASE name = "recon2" -> [i \in 1..Len(spaced) |-> Recon2Token(spaced[i])]
          [] name = "recon1" -> [i \in 1..Len(spaced) |-> Recon1Token(spaced[i])]
          [] name = "iMM1865" -> [i \in 1..Len(plain) |-> IMMToken(plain[i])]
          [] name = "human1" -> spaced
          [] name = "zebrafish1" -> [i \in 1..Len(spaced) |-> SubColonDot(spaced[i])]
          [] OTHER -> <<>>

\* gen_list of prepare_expr_split_gen_list
GenList(rxn, name) ==
    CASE name = "recon2" ->
            {ColonToUnderscore(s) : s \in {t \in Range(RxnGenes(rxn)) : ":" \in Range(t)}}
      [] name = "recon1" ->
            {G_ \o DropLast4(s) : s \in {t \in Range(RxnGenes(rxn)) : "_" \in Range(t)}}
      [] name = "iMM1865" ->
            {G_ \o s : s \in {t \in Range(RxnGenes(rxn)) : IsDigit(t)}}
      [] name = "human1" -> rxn.genes
      [] name = "zebrafish1" -> {SubColonDot(g) : g \in rxn.genes}
      [] OTHER -> {}

prepare_expr_split_gen_list(rxn, name) ==
    [found |-> name \in SupportedNames,
     expr_split |-> ExprSplit(rxn, name),
     gen_list |-> GenList(rxn, name)]

----------------------------------------------------------------------------
(* Numbers: [w, e] is w + e * 1e-15.  float64 cannot resolve 1e-15 on a    *)
(* magnitude of 17 or more (there x - 1e-15 == x and x + 1e-15 == x),      *)
(* while on integers 1..16 (x - 1e-15) + 1e-15 == x and x - 1e-15 < x.     *)

AbsorbFrom == 17

Num(w, e) == [w |-> w, e |-> e]
Zero == Num(0, 0)
Eps == Num(0, 1)

Abs(n) == IF n < 0 THEN -n ELSE n

\* rounding of a float64 result to what the format can hold
Round(x) == IF Abs(x.w) >= AbsorbFrom THEN Num(x.w, 0) ELSE x

Less(x, y) == x.w < y.w \/ (x.w = y.w /\ x.e < y.e)
Neg(x) == Num(-x.w, -x.e)
Plus(x, y) == Round(Num(x.w + y.w, x.e + y.e))
Minus(x, y) == Round(Num(x.w - y.w, x.e - y.e))
NumMax(x, y) == IF Less(x, y) THEN y ELSE x
NumMin(x, y) == IF Less(y, x) THEN y ELSE x

RECURSIVE IntPow(_, _)
IntPow(b, k) == IF k = 0 THEN 1 ELSE b * IntPow(b, k - 1)

\* (w + e*eps)^k = w^k + k*w^(k-1)*e*eps, the eps^2 terms being below the format's
\* resolution (w # 0 whenever e # 0)
NumPow(x, k) ==
    IF k = 0 THEN Num(1, 0)
    ELSE Round(Num(IntPow(x.w, k), k * IntPow(x.w, k - 1) * x.e))

----------------------------------------------------------------------------
(* sympify(expression): lexing, operator-precedence parsing, and the       *)
(* automatic canonical form of symengine's Add and Mul (numbers folded,    *)
(* x + x = 2*x, x * x = x**2).                                              *)

Node(op, name, val, args) == [op |-> op, name |-> name, val |-> val, args |-> args]
Symbol(name) == Node("Symbol", name, 0, <<>>)
Integer(n) == Node("Integer", <<>>, n, <<>>)
Apply(op, args) == Node(op, <<>>, 0, args)
SyntaxError == Node("SyntaxError", <<>>, 0, <<>>)

Tok(t, s) == [t |-> t, s |-> s]

IdentStart(c) == c \in Letters \cup {"_"}
IdentChar(c) == c \in Letters \cup Digits \cup {"_"}

RECURSIVE DigitRun(_)
DigitRun(s) ==
    IF s = <<>> \/ Head(s) \notin Digits THEN <<>> ELSE <<Head(s)>> \o DigitRun(Tail(s))

RECURSIVE IdentRun(_)
IdentRun(s) ==
    IF s = <<>> \/ ~IdentChar(Head(s)) THEN <<>> ELSE <<Head(s)>> \o IdentRun(Tail(s))

RECURSIVE Lex(_)
Lex(s) ==
    IF s = <<>> THEN <<>>
    ELSE IF Head(s) = " " THEN Lex(Tail(s))
    ELSE IF Head(s) \in {"+", "*", "(", ")"} THEN <<Tok(Head(s), <<>>)>> \o Lex(Tail(s))
    ELSE IF Head(s) \in Digits
         THEN <<Tok("num", DigitRun(s))>> \o Lex(Drop(s, Len(DigitRun(s))))
    ELSE IF IdentStart(Head(s))
         THEN <<Tok("id", IdentRun(s))>> \o Lex(Drop(s, Len(IdentRun(s))))
    ELSE <<Tok("bad", <<Head(s)>>)>>

DigitVal(c) == CHOOSE n \in 0..9 : <<"0", "1", "2", "3", "4", "5", "6", "7", "8", "9">>[n + 1] = c

RECURSIVE IntVal(_)
IntVal(ds) ==
    IF ds = <<>> THEN 0 ELSE 10 * IntVal(SubSeq(ds, 1, Len(ds) - 1)) + DigitVal(ds[Len(ds)])

IsInt(t) == t.op = "Integer"
NotInt(t) == t.op # "Integer"

RECURSIVE SumVals(_)
SumVals(ts) == IF ts = <<>> THEN 0 ELSE Head(ts).val + SumVals(Tail(ts))

RECURSIVE ProdVals(_)
ProdVals(ts) == IF ts = <<>> THEN 1 ELSE Head(ts).val * ProdVals(Tail(ts))

\* the distinct elements of a sequence, in order of first occurrence
RECURSIVE Dedup(_)
Dedup(ts) ==
    IF ts = <<>> THEN <<>>
    ELSE LET rest == Dedup(SubSeq(ts, 1, Len(ts) - 1))
             last == ts[Len(ts)]
         IN IF last \in Range(rest) THEN rest ELSE Append(rest, last)

\* a term k*t of a sum: its integer coefficient and the rest
Coeff(t) == IF t.op = "Mul" /\ IsInt(t.args[1]) THEN t.args[1].val ELSE 1
CoeffBase(t) ==
    IF t.op = "Mul" /\ IsInt(t.args[1])
    THEN IF Len(t.args) = 2 THEN t.args[2] ELSE Apply("Mul", Tail(t.args))
    ELSE t

\* a factor b**k of a product: its base and integer exponent
PowBase(t) == IF t.op = "Pow" /\ IsInt(t.args[2]) THEN t.args[1] ELSE t
PowExp(t) == IF t.op = "Pow" /\ IsInt(t.args[2]) THEN t.args[2].val ELSE 1

RECURSIVE SumCoeff(_, _)
SumCoeff(ts, b) ==
    IF ts = <<>> THEN 0
    ELSE (IF CoeffBase(Head(ts)) = b THEN Coeff(Head(ts)) ELSE 0) + SumCoeff(Tail(ts), b)

RECURSIVE SumExp(_, _)
SumExp(ts, b) ==
    IF ts = <<>> THEN 0
    ELSE (IF PowBase(Head(ts)) = b THEN PowExp(Head(ts)) ELSE 0) + SumExp(Tail(ts), b)

Scaled(k, b) ==
    IF k = 1 THEN b
    ELSE IF b.op = "Mul" THEN Apply("Mul", <<Integer(k)>> \o b.args)
    ELSE Apply("Mul", <<Integer(k), b>>)

Powered(b, k) == IF k = 1 THEN b ELSE Apply("Pow", <<b, Integer(k)>>)

Flat(op, t) == IF t.op = op THEN t.args ELSE <<t>>

\* a + b
add(a, b) ==
    LET all == Flat("Add", a) \o Flat("Add", b)
        c == SumVals(SelectSeq(all, IsInt))
        terms == SelectSeq(all, NotInt)
        bases == Dedup([i \in 1..Len(terms) |-> CoeffBase(terms[i])])
        args == (IF c # 0 THEN <<Integer(c)>> ELSE <<>>)
                \o [i \in 1..Len(bases) |-> Scaled(SumCoeff(terms, bases[i]), bases[i])]
    IN  IF args = <<>> THEN Integer(0)
        ELSE IF Len(args) = 1 THEN args[1]
        ELSE Apply("Add", args)

\* a * b
mul(a, b) ==
    LET all == Flat("Mul", a) \o Flat("Mul", b)
        c == ProdVals(SelectSeq(all, IsInt))
        factors == SelectSeq(all, NotInt)
        bases == Dedup([i \in 1..Len(factors) |-> PowBase(factors[i])])
        args == (IF c # 1 THEN <<Integer(c)>> ELSE <<>>)
                \o [i \in 1..Len(bases) |-> Powered(bases[i], SumExp(factors, bases[i]))]
    IN  IF c = 0 THEN Integer(0)
        ELSE IF args = <<>> THEN Integer(1)
        ELSE IF Len(args) = 1 THEN args[1]
        ELSE Apply("Mul", args)

Parsed(tree, rest) == [tree |-> tree, rest |-> rest]
Failed == Parsed(SyntaxError, <<>>)

RECURSIVE ParseExpr(_), ParseSum(_, _), ParseTerm(_), ParseProduct(_, _), ParseFactor(_)

\* factor: identifier | number | ( expr )
ParseFactor(toks) ==
    IF toks = <<>> THEN Failed
    ELSE IF Head(toks).t = "id" THEN Parsed(Symbol(Head(toks).s), Tail(toks))
    ELSE IF Head(toks).t = "num" THEN Parsed(Integer(IntVal(Head(toks).s)), Tail(toks))
    ELSE IF Head(toks).t = "("
         THEN LET inner == ParseExpr(Tail(toks))
              IN  IF inner.tree = SyntaxError \/ inner.rest = <<>> \/ Head(inner.rest).t # ")"
                  THEN Failed
                  ELSE Parsed(inner.tree, Tail(inner.rest))
    ELSE Failed

\* term: factor (* factor)*
ParseProduct(left, toks) ==
    IF toks # <<>> /\ Head(toks).t = "*"
    THEN LET right == ParseFactor(Tail(toks))
         IN  IF right.tree = SyntaxError THEN Failed
             ELSE ParseProduct(mul(left, right.tree), right.rest)
    ELSE Parsed(left, toks)

ParseTerm(toks) ==
    LET first == ParseFactor(toks)
    IN  IF first.tree = SyntaxError THEN Failed ELSE ParseProduct(first.tree, first.rest)

\* expr: term (+ term)*
ParseSum(left, toks) ==
    IF toks # <<>> /\ Head(toks).t = "+"
    THEN LET right == ParseTerm(Tail(toks))
         IN  IF right.tree = SyntaxError THEN Failed
             ELSE ParseSum(add(left, right.tree), right.rest)
    ELSE Parsed(left, toks)

ParseExpr(toks) ==
    LET first == ParseTerm(toks)
    IN  IF first.tree = SyntaxError THEN Failed ELSE ParseSum(first.tree, first.rest)

sympify(expression) ==
    LET p == ParseExpr(Lex(expression))
    IN  IF p.tree # SyntaxError /\ p.rest = <<>> THEN p.tree ELSE SyntaxError

----------------------------------------------------------------------------
(* replace_MulMax_AddMin and subs *)

\* the rewrite with Max and Min exchanged
RECURSIVE replace_MulMin_AddMax(_)
replace_MulMin_AddMax(expression) ==
    IF expression.op \in {"Symbol", "Integer"} THEN expression
    ELSE LET replaced_args ==
                 [i \in 1..Len(expression.args) |-> replace_MulMin_AddMax(expression.args[i])]
         IN  IF expression.op = "Mul" THEN Apply("Min", replaced_args)
             ELSE IF expression.op = "Add" THEN Apply("Max", replaced_args)
             ELSE Apply(expression.op, replaced_args)

RECURSIVE replace_MulMax_AddMin(_)
replace_MulMax_AddMin(expression) ==
    IF expression.op \in {"Symbol", "Integer"} THEN expression
    ELSE LET replaced_args ==
                 [i \in 1..Len(expression.args) |-> replace_MulMax_AddMin(expression.args[i])]
         IN  IF expression.op = "Mul" THEN Apply("Max", replaced_args)
             ELSE IF expression.op = "Add" THEN Apply("Min", replaced_args)
             ELSE Apply(expression.op, replaced_args)

\* a value of the evaluation: a number, or an expression that still has free symbols
Number(x) == [num |-> TRUE, val |-> x, free |-> {}]
Symbolic(names) == [num |-> FALSE, val |-> Zero, free |-> names]

RECURSIVE FoldMax(_)
FoldMax(vs) == IF Len(vs) = 1 THEN vs[1] ELSE NumMax(vs[1], FoldMax(Tail(vs)))

RECURSIVE FoldMin(_)
FoldMin(vs) == IF Len(vs) = 1 THEN vs[1] ELSE NumMin(vs[1], FoldMin(Tail(vs)))

\* expression.subs(new_weights), evaluated
RECURSIVE subs(_, _)
subs(expression, new_weights) ==
    IF expression.op = "Symbol"
    THEN IF expression.name \in DOMAIN new_weights
         THEN Number(new_weights[expression.name])
         ELSE Symbolic({expression.name})
    ELSE IF expression.op = "Integer" THEN Number(Num(expression.val, 0))
    ELSE LET vs == [i \in 1..Len(expression.args) |-> subs(expression.args[i], new_weights)]
             free == UNION {vs[i].free : i \in 1..Len(vs)}
             nums == [i \in 1..Len(vs) |-> vs[i].val]
         IN  IF \E i \in 1..Len(vs) : ~vs[i].num THEN Symbolic(free)
             ELSE IF expression.op = "Max" THEN Number(FoldMax(nums))
             ELSE IF expression.op = "Min" THEN Number(FoldMin(nums))
             ELSE Number(NumPow(nums[1], expression.args[2].val))

----------------------------------------------------------------------------
(* The inputs: reactions of models written in each naming convention, with *)
(* the genes cobra derives from the rule.                                  *)

Rxn(conv, rule, genes) == [conv |-> conv, gene_reaction_rule |-> rule, genes |-> genes]

and_ == <<" ", "a", "n", "d", " ">>
or_ == <<" ", "o", "r", " ">>

gA == <<"A">>
gB == <<"B">>
gC == <<"C">>
gCord == <<"c", "o", "r", "d">>
gSand == <<"s", "a", "n", "d">>
g1AT1 == <<"1", "_", "A", "T", "1">>
g1AT2 == <<"1", "_", "A", "T", "2">>
g2AT1 == <<"2", "_", "A", "T", "1">>
gH1 == <<"H", ":", "1">>
gH2 == <<"H", ":", "2">>
gZ1 == <<"Z", ".", "1">>
gZ2 == <<"Z", ":", "2">>

\* a plain two-gene reaction and a reaction without genes, in each convention
PlainRxns ==
    { Rxn("human1", gA \o and_ \o gB, {gA, gB}),
      Rxn("recon1", g1AT1 \o and_ \o g2AT1, {g1AT1, g2AT1}),
      Rxn("recon2", gH1 \o and_ \o gH2, {gH1, gH2}),
      Rxn("iMM1865", <<"1">> \o and_ \o <<"2">>, {<<"1">>, <<"2">>}),
      Rxn("zebrafish1", gZ1 \o or_ \o gZ2, {gZ1, gZ2}) }

NoGeneRxns == { Rxn(conv, <<>>, {}) : conv \in SupportedNames }

Human1Rxns ==
    { Rxn("human1", gA \o and_ \o gB, {gA, gB}),
      Rxn("human1", gA \o or_ \o gB, {gA, gB}),
      Rxn("human1", gA \o and_ \o <<"(">> \o gB \o or_ \o gC \o <<")">>, {gA, gB, gC}),
      Rxn("human1", gA \o or_ \o gA, {gA}),
      Rxn("human1", gA \o and_ \o gA, {gA}),
      Rxn("human1", gCord \o and_ \o gB, {gCord, gB}),
      Rxn("human1", gSand \o or_ \o gB, {gSand, gB}),
      Rxn("human1", <<>>, {}) }

Recon1Rxns ==
    { Rxn("recon1", g1AT1 \o or_ \o g1AT2, {g1AT1, g1AT2}),
      Rxn("recon1", g1AT1 \o and_ \o g2AT1, {g1AT1, g2AT1}),
      Rxn("recon1", <<>>, {}) }

Recon2Rxns ==
    { Rxn("recon2", gH1 \o and_ \o gH2, {gH1, gH2}),
      Rxn("recon2", <<>>, {}) }

IMM1865Rxns ==
    { Rxn("iMM1865", <<"1">> \o and_ \o <<"2">>, {<<"1">>, <<"2">>}),
      Rxn("iMM1865", <<"1">> \o and_ \o <<"(", "2">> \o or_ \o <<"3", ")">>,
          {<<"1">>, <<"2">>, <<"3">>}),
      Rxn("iMM1865", <<>>, {}) }

Zebrafish1Rxns ==
    { Rxn("zebrafish1", gZ1 \o or_ \o gZ2, {gZ1, gZ2}),
      Rxn("zebrafish1", <<>>, {}) }

RxnPool == Human1Rxns \cup Recon1Rxns \cup Recon2Rxns \cup IMM1865Rxns \cup Zebrafish1Rxns

\* a name outside the five supported ones
UnsupportedNames == {"iML1515"}

\* gene scores
WeightPool ==
    { Num(-17, 0), Num(-2, 0), Num(-1, 0), Zero, Num(1, 0), Num(2, 0), Num(17, 0) }

MaxRxns == 2

\* models of up to MaxRxns reactions, all written in one convention: any reaction
\* of the pool, followed by plain reactions and reactions without genes
Models ==
    UNION { {m \in [1..n -> RxnPool] :
                \A i \in 2..n : m[i] \in PlainRxns \cup NoGeneRxns /\ m[i].conv = m[1].conv}
            : n \in 1..MaxRxns }

\* the gene IDs of a model, as its own convention writes them in the weight table
ModelKeys(m) == UNION {GenList(m[i], m[1].conv) : i \in 1..Len(m)}

\* the weights of the example A: 2, B: 5, C: -1
ExampleTable == (gA :> Num(2, 0)) @@ (gB :> Num(5, 0)) @@ (gC :> Num(-1, 0))

\* the weight tables over the gene IDs of a set of keys, any of them possibly absent
Tables(keys) ==
    UNION { [S -> WeightPool] : S \in SUBSET keys }
    \cup (IF DOMAIN ExampleTable = keys THEN {ExampleTable} ELSE {})

----------------------------------------------------------------------------
(* apply_gpr *)

\* gene_weights.get(g, 0)
Get(g) == IF g \in DOMAIN gene_weights THEN gene_weights[g] ELSE Zero

IsNegative(v) == Less(v, Zero)

\* -v - 1e-15
Flip(v) == Minus(Neg(v), Eps)

\* new_weights after the loop over its items
NewWeights(gen_list) ==
    [g \in gen_list |-> IF IsNegative(Get(g)) THEN Flip(Get(g)) ELSE Get(g)]

\* negweights, as a set: the code only tests membership
NegWeights(gen_list) == {Neg(Get(g)) : g \in {h \in gen_list : IsNegative(Get(h))}}

\* the substitution with `or` written as + too
ExpressionOrAsPlus(expr_split) ==
    Replace(Replace(Join(expr_split), <<"o", "r">>, <<"+">>), <<"a", "n", "d">>, <<"+">>)

\* ' '.join(expr_split).replace('or', '*').replace('and', '+')
Expression(expr_split) ==
    Replace(Replace(Join(expr_split), <<"o", "r">>, <<"*">>), <<"a", "n", "d">>, <<"+">>)

\* the unflip applied whenever some gene of the rule has a negative weight
UnflipWithoutTest(weight, negweights) ==
    IF weight.num /\ negweights # {}
    THEN Number(Minus(Neg(weight.val), Eps))
    ELSE weight

\* if weight + 1e-15 in negweights: weight = -weight - 1e-15
Unflip(weight, negweights) ==
    IF weight.num /\ Plus(weight.val, Eps) \in negweights
    THEN Number(Minus(Neg(weight.val), Eps))
    ELSE weight

\* the weight of a reaction with genes, under a supported name and a rule that parses
Weight(rxn) ==
    LET p == prepare_expr_split_gen_list(rxn, modelname)
        weight == subs(replace_MulMax_AddMin(sympify(Expression(p.expr_split))),
                       NewWeights(p.gen_list))
    IN  Unflip(weight, NegWeights(p.gen_list))

Parses(rxn) ==
    sympify(Expression(prepare_expr_split_gen_list(rxn, modelname).expr_split)) # SyntaxError

Store(id, weight) ==
    [j \in DOMAIN reaction_weights \cup {id} |-> IF j = id THEN weight ELSE reaction_weights[j]]

NoFile == [written |-> FALSE, rows |-> <<>>]

InLoop == pc = "loop" /\ idx <= Len(model)

\* lines 111-124: a reaction with genes, weighted through its rule
RxnWithGenes ==
    /\ InLoop
    /\ Cardinality(model[idx].genes) > 0
    /\ modelname \in SupportedNames
    /\ Parses(model[idx])
    /\ reaction_weights' = Store(idx, Weight(model[idx]))
    /\ idx' = idx + 1
    /\ UNCHANGED <<model, gene_weights, modelname, pc, console, csv>>

\* an else branch that returns an empty list and an empty set, so that the loop goes on
ModelnameNotFoundGoesOn ==
    /\ InLoop
    /\ Cardinality(model[idx].genes) > 0
    /\ modelname \notin SupportedNames
    /\ console' = Append(console, "Modelname not found")
    /\ reaction_weights' = Store(idx, Number(Zero))
    /\ idx' = idx + 1
    /\ UNCHANGED <<model, gene_weights, modelname, pc, csv>>

\* lines 86-89 and 113: the name is not found, gen_list is None and iterating it raises
ModelnameNotFound ==
    /\ InLoop
    /\ Cardinality(model[idx].genes) > 0
    /\ modelname \notin SupportedNames
    /\ console' = Append(console, "Modelname not found")
    /\ pc' = "TypeError"
    /\ UNCHANGED <<model, gene_weights, modelname, reaction_weights, idx, csv>>

\* line 121: sympify raises on an expression that does not parse
SympifyRaises ==
    /\ InLoop
    /\ Cardinality(model[idx].genes) > 0
    /\ modelname \in SupportedNames
    /\ ~Parses(model[idx])
    /\ pc' = "SympifyError"
    /\ UNCHANGED <<model, gene_weights, modelname, reaction_weights, idx, console, csv>>

\* a loop without the else branch
RxnWithoutGenesSkipped ==
    /\ InLoop
    /\ Cardinality(model[idx].genes) = 0
    /\ idx' = idx + 1
    /\ UNCHANGED <<model, gene_weights, modelname, reaction_weights, pc, console, csv>>

\* lines 125-126: a reaction without genes
RxnWithoutGenes ==
    /\ InLoop
    /\ Cardinality(model[idx].genes) = 0
    /\ reaction_weights' = Store(idx, Number(Zero))
    /\ idx' = idx + 1
    /\ UNCHANGED <<model, gene_weights, modelname, pc, console, csv>>

\* lines 127-129: the loop is over; save if asked, and return
Return ==
    /\ pc = "loop"
    /\ idx > Len(model)
    /\ \E save \in BOOLEAN :
          csv' = IF save THEN [written |-> TRUE, rows |-> reaction_weights] ELSE csv
    /\ pc' = "returned"
    /\ UNCHANGED <<model, gene_weights, modelname, reaction_weights, idx, console>>

QIdle ==
    /\ expression_file = <<>>
    /\ df = <<>>
    /\ percentage = 25
    /\ qpc = "idle"
    /\ geneweights_csv = <<>>

Init ==
    /\ model \in Models
    /\ modelname \in {model[1].conv} \cup UnsupportedNames
    /\ gene_weights \in Tables(ModelKeys(model))
    /\ reaction_weights = <<>>
    /\ idx = 1
    /\ pc = "loop"
    /\ console = <<>>
    /\ csv = NoFile
    /\ QIdle

Next ==
    \/ RxnWithGenes /\ UNCHANGED qVars
    \/ ModelnameNotFound /\ UNCHANGED qVars
    \/ SympifyRaises /\ UNCHANGED qVars
    \/ RxnWithoutGenes /\ UNCHANGED qVars
    \/ Return /\ UNCHANGED qVars

Spec == Init /\ [][Next]_vars

----------------------------------------------------------------------------
(* expression2qualitative, for one column of a table whose gene IDs are    *)
(* unique (method "max" and "mean" then leave every value as it is)        *)

MaxGenes == 4
MaxValue == 3

\* percentages p for which 1/(p/100) is an exact float
PercentagePool == {10, 20, 25, 50}

\* cutoff = 1/(percentage/100)
Cutoff(p) == 100 \div p

\* int(len(df)//cutoff)+1
LowEnd(n, p) == (n \div Cutoff(p)) + 1

\* the start of the top slice taken at len(df)//cutoff
HighStartAtLow(n, p) == n \div Cutoff(p)

\* int(len(df)*(cutoff-1)//cutoff)
HighStart(n, p) == (n * (Cutoff(p) - 1)) \div Cutoff(p)

\* the three slice assignments in order, on the row at 0-based position k
Label(k, n, p) ==
    LET afterLow == IF k < LowEnd(n, p) THEN -1 ELSE 2
        afterMid == IF LowEnd(n, p) <= k /\ k < HighStart(n, p) THEN 0 ELSE afterLow
    IN  IF HighStart(n, p) <= k THEN 1 ELSE afterMid

Row(gene, value) == [gene |-> gene, value |-> value]

\* pd.read_csv(expression_file, index_col=0)
ReadCsv(file) == [i \in 1..Len(file) |-> Row(i, file[i])]

\* the orders df.sort_values(col) can leave the rows S of `rows` in: ascending by
\* value, rows of equal value in any order (the default sort is not stable)
RECURSIVE SortedOrdersOf(_, _)
SortedOrdersOf(rows, S) ==
    IF S = {} THEN {<<>>}
    ELSE UNION { {<<i>> \o t : t \in SortedOrdersOf(rows, S \ {i})} :
                 i \in {j \in S : \A k \in S : rows[j].value <= rows[k].value} }

SortedOrders(rows) == SortedOrdersOf(rows, 1..Len(rows))

expression2qualitative ==
    /\ qpc = "start"
    /\ \E o \in SortedOrders(ReadCsv(expression_file)), save \in BOOLEAN :
          LET rows == ReadCsv(expression_file)
              n == Len(rows)
              labelled == [i \in 1..n |-> Row(rows[o[i]].gene, Label(i - 1, n, percentage))]
          IN  /\ df' = labelled
              /\ geneweights_csv' = IF save THEN labelled ELSE geneweights_csv
    /\ qpc' = "returned"
    /\ UNCHANGED <<expression_file, percentage>>

GprIdle ==
    /\ model = <<>>
    /\ gene_weights = <<>>
    /\ modelname = "human1"
    /\ reaction_weights = <<>>
    /\ idx = 1
    /\ pc = "idle"
    /\ console = <<>>
    /\ csv = NoFile

\* the column 1, 2, ..., 10
ExampleColumn == [i \in 1..10 |-> i]

InitQ ==
    /\ expression_file \in UNION { [1..n -> 1..MaxValue] : n \in 1..MaxGenes } \cup {ExampleColumn}
    /\ percentage \in PercentagePool
    /\ df = <<>>
    /\ qpc = "start"
    /\ geneweights_csv = <<>>
    /\ GprIdle

NextQ == expression2qualitative /\ UNCHANGED gprVars

SpecQ == InitQ /\ [][NextQ]_vars

----------------------------------------------------------------------------
(* Properties of apply_gpr *)

\* the ID under which the weight table holds a gene of the pool
CanonicalID(g) ==
    CASE g = g1AT1 -> <<"g", "_", "1">>
      [] g = g1AT2 -> <<"g", "_", "1">>
      [] g = g2AT1 -> <<"g", "_", "2">>
      [] g = gH1 -> <<"H", "_", "1">>
      [] g = gH2 -> <<"H", "_", "2">>
      [] g = gZ1 -> <<"Z", "_", "1">>
      [] g = gZ2 -> <<"Z", "_", "2">>
      [] IsDigit(g) -> <<"g", "_">> \o g
      [] OTHER -> g

\* the weight of a gene in the table, 0 for a gene that has no entry
TableWeight(g) == Get(CanonicalID(g))

TableWeights(rxn) == {TableWeight(g) : g \in rxn.genes}

Least(S) == CHOOSE x \in S : \A y \in S : ~Less(y, x)
Greatest(S) == CHOOSE x \in S : \A y \in S : ~Less(x, y)

NonNegative(rxn) == \A g \in rxn.genes : ~IsNegative(TableWeight(g))

\* the reactions with genes that apply_gpr has weighted so far
Weighted == {i \in DOMAIN reaction_weights : model[i].genes # {}}

AndRxns == {r \in PlainRxns : r.conv # "zebrafish1"}
OrRxns == {Rxn("human1", gA \o or_ \o gB, {gA, gB}), Rxn("zebrafish1", gZ1 \o or_ \o gZ2, {gZ1, gZ2})}
MixedRxn == Rxn("human1", gA \o and_ \o <<"(">> \o gB \o or_ \o gC \o <<")">>, {gA, gB, gC})
RepeatedRxns ==
    { Rxn("human1", gA \o or_ \o gA, {gA}),
      Rxn("human1", gA \o and_ \o gA, {gA}),
      Rxn("recon1", g1AT1 \o or_ \o g1AT2, {g1AT1, g1AT2}) }
\* reactions with a gene ID that has `or` or `and` inside it
InsideRxns ==
    { Rxn("human1", gCord \o and_ \o gB, {gCord, gB}),
      Rxn("human1", gSand \o or_ \o gB, {gSand, gB}) }

\* C1 as stated: the weight of a rule `A and B` is min(weight(A), weight(B)) for
\* every assignment of weights, negative ones included.
C1_MinForEveryAssignment ==
    \A i \in Weighted :
        model[i] \in AndRxns => reaction_weights[i] = Number(Least(TableWeights(model[i])))

\* C1 amended: the weight of a rule `A and B` is min(weight(A), weight(B)) for every
\* assignment in which neither weight is negative (a missing gene counting as 0).
C1_MinForNonNegative ==
    \A i \in Weighted :
        (model[i] \in AndRxns /\ NonNegative(model[i]))
            => reaction_weights[i] = Number(Least(TableWeights(model[i])))

C1_Witness ==
    \E i \in Weighted :
        /\ model[i] \in AndRxns
        /\ TableWeights(model[i]) = {Num(1, 0), Num(2, 0)}
        /\ reaction_weights[i] = Number(Num(1, 0))

\* C2 as stated: the weight of a rule `A or B` is max(weight(A), weight(B)) for
\* every assignment of weights, negative ones included.
C2_MaxForEveryAssignment ==
    \A i \in Weighted :
        model[i] \in OrRxns => reaction_weights[i] = Number(Greatest(TableWeights(model[i])))

\* C2 amended: the weight of a rule `A or B` is max(weight(A), weight(B)) for every
\* assignment in which neither weight is negative (a missing gene counting as 0).
C2_MaxForNonNegative ==
    \A i \in Weighted :
        (model[i] \in OrRxns /\ NonNegative(model[i]))
            => reaction_weights[i] = Number(Greatest(TableWeights(model[i])))

C2_Witness ==
    \E i \in Weighted :
        /\ model[i] \in OrRxns
        /\ TableWeights(model[i]) = {Num(1, 0), Num(2, 0)}
        /\ reaction_weights[i] = Number(Num(2, 0))

MixedExpected == NumMin(TableWeight(gA), NumMax(TableWeight(gB), TableWeight(gC)))

C4_MissingGeneIsZero ==
    \A i \in Weighted :
        (/\ model[i] \notin RepeatedRxns \cup InsideRxns
         /\ \E g \in model[i].genes : CanonicalID(g) \notin DOMAIN gene_weights)
            => /\ reaction_weights[i].num
               /\ reaction_weights[i].free = {}
               /\ reaction_weights[i].val \in TableWeights(model[i])

\* C5: a reaction with no genes gets exactly 0.0, whatever the table, the rule and
\* the naming convention.
C5_NoGenesZero ==
    \A i \in 1..Len(model) :
        (model[i].genes = {} /\ i < idx)
            => i \in DOMAIN reaction_weights /\ reaction_weights[i] = Number(Zero)

C5_Witness ==
    \E i \in DOMAIN reaction_weights :
        /\ model[i].genes = {}
        /\ reaction_weights[i] = Number(Zero)
        /\ modelname \notin SupportedNames
        /\ \E g \in DOMAIN gene_weights : gene_weights[g] # Zero

HasGenes == \E i \in 1..Len(model) : model[i].genes # {}

\* C6: under a name that is not one of the five, tokenisation yields nothing, the
\* caller gets the console message and an exception instead of a table, and no
\* reaction with genes ever has a weight stored for it.
C6_UnsupportedName ==
    (modelname \notin SupportedNames /\ HasGenes) =>
        /\ \A i \in 1..Len(model) :
              LET p == prepare_expr_split_gen_list(model[i], modelname)
              IN  ~p.found /\ p.expr_split = <<>> /\ p.gen_list = {}
        /\ Weighted = {}
        /\ pc # "returned"
        /\ ~csv.written
        /\ pc # "loop" => pc = "TypeError" /\ console = <<"Modelname not found">>
        /\ pc = "loop" => \A i \in 1..(idx - 1) : model[i].genes = {}

C6_Witness ==
    /\ modelname \notin SupportedNames
    /\ pc = "TypeError"
    /\ console = <<"Modelname not found">>
    /\ DOMAIN reaction_weights # {}

\* the reactions whose rule apply_gpr has tokenised and handed to the parser
Tokenised ==
    IF modelname \in SupportedNames
    THEN Weighted \cup {i \in {idx} : pc = "SympifyError"}
    ELSE {}

Operators == {<<"a", "n", "d">>, <<"o", "r">>, <<"(">>, <<")">>}

\* the token as the claim has it reach the parser
WordSubstituted(t) ==
    IF t = <<"o", "r">> THEN <<"*">> ELSE IF t = <<"a", "n", "d">> THEN <<"+">> ELSE t

\* C8: the substitution replaces only the words `or` and `and`; every gene token
\* reaches the parser unchanged, and gen_list names the gene tokens of the expression.
C8_OnlyWordsSubstituted ==
    \A i \in Tokenised :
        LET p == prepare_expr_split_gen_list(model[i], modelname)
        IN  /\ Split(Expression(p.expr_split))
                  = [k \in 1..Len(p.expr_split) |-> WordSubstituted(p.expr_split[k])]
            /\ p.gen_list = Range(p.expr_split) \ Operators

\* the value of the MIN/MAX tree, before the unflip
TreeValue(rxn) ==
    LET p == prepare_expr_split_gen_list(rxn, modelname)
    IN  subs(replace_MulMax_AddMin(sympify(Expression(p.expr_split))), NewWeights(p.gen_list))

\* C9: the stored weight is the table weight of one of the rule's genes; when the
\* tree evaluates to the flipped value of a gene of negative weight v, v is stored;
\* when it evaluates to the weight of a gene with a non-negative weight, that weight is
\* stored as it is, also when another gene has the negative weight of the same magnitude.
\* (Stated for rules of distinct genes that tokenise as intended.)
C9_SignRestored ==
    \A i \in Weighted :
        model[i] \in AndRxns \cup OrRxns \cup {MixedRxn} =>
            /\ reaction_weights[i].num
            /\ reaction_weights[i].val \in TableWeights(model[i])
            /\ \A g \in model[i].genes :
                  (IsNegative(TableWeight(g)) /\ TreeValue(model[i]) = Number(Flip(TableWeight(g))))
                      => reaction_weights[i] = Number(TableWeight(g))
            /\ \A g \in model[i].genes :
                  (~IsNegative(TableWeight(g)) /\ TreeValue(model[i]) = Number(TableWeight(g)))
                      => reaction_weights[i] = Number(TableWeight(g))

\* C10: a rule that repeats one gene (`A or A`, `A and A`, two transcripts of one
\* gene) has the weight of that gene.
C10_RepeatedGene ==
    \A i \in Weighted :
        model[i] \in RepeatedRxns =>
            \A g \in model[i].genes : reaction_weights[i] = Number(TableWeight(g))

----------------------------------------------------------------------------
(* Properties of expression2qualitative *)

Count(label) == Cardinality({i \in 1..Len(df) : df[i].value = label})

====
